---- MODULE Spec2Model ----
(***************************************************************************)
(* FirefoxRouter: the URL-glob compiler (src/src/glob.rs) and the matcher  *)
(* it produces.  Strings are sequences of characters; a character is a     *)
(* one-element TLA+ string, except the two-byte character EAcute.          *)
(***************************************************************************)
EXTENDS Integers, Sequences, FiniteSets, TLC

VARIABLES pc, glob, with_protocol, without_protocol, error, url, matched,
          app_pc, config_file, config, args, filtered_args, opened, outcome

\* The state of one Glob and of its one question.
globvars == <<pc, glob, with_protocol, without_protocol, error, url, matched>>

\* The state of one run of handle_links.
appvars == <<app_pc, config_file, config, args, filtered_args, opened, outcome>>

vars == <<pc, glob, with_protocol, without_protocol, error, url, matched,
          app_pc, config_file, config, args, filtered_args, opened, outcome>>

(***************************************************************************)
(* Strings: byte lengths, byte offsets, substring search                   *)
(***************************************************************************)

\* A character that takes two bytes in UTF-8 (e with acute accent).
EAcute == "U+00E9"

\* Option::None of an index.
None == -1

\* The character after the end of a string (chars().nth() returned None).
NoChar == "NoChar"

Utf8Len(c) == IF c = EAcute THEN 2 ELSE 1

\* The bytes that the characters of width w add to one byte each.
ExtraBytes(s, w) == (w - 1) * Cardinality({i \in 1..Len(s) : Utf8Len(s[i]) = w})

\* str::len(): the length of the string in bytes.
ByteLen(s) == Len(s) + ExtraBytes(s, 2) + ExtraBytes(s, 3) + ExtraBytes(s, 4)

\* TRUE iff pat occurs in s starting at character position i (1-based).
OccursAt(s, pat, i) ==
    /\ i + Len(pat) - 1 <= Len(s)
    /\ \A k \in 1..Len(pat) : s[i + k - 1] = pat[k]

\* 1-based character position of the first occurrence of pat at or after i, 0 if none.
FindFrom(s, pat, i) ==
    LET hits == {k \in i..Len(s) : OccursAt(s, pat, k)}
    IN IF hits = {} THEN 0
       ELSE CHOOSE k \in hits : \A o \in hits : k <= o

\* str::find(): the BYTE offset of the first occurrence of pat, or None.
str_find(s, pat) ==
    LET p == FindFrom(s, pat, 1)
    IN IF p = 0 THEN None ELSE ByteLen(SubSeq(s, 1, p - 1))

\* The number of characters that lie before byte offset b (b on a boundary).
CharsBefore(s, b) ==
    CHOOSE k \in 0..Len(s) : ByteLen(SubSeq(s, 1, k)) = b

\* &s[b..]: the slice from byte offset b to the end.
SliceFrom(s, b) == SubSeq(s, CharsBefore(s, b) + 1, Len(s))

\* chars().nth(i): the character at CHARACTER index i (0-based), or NoChar.
nth(s, i) == IF i < Len(s) THEN s[i + 1] ELSE NoChar

(***************************************************************************)
(* glob.rs constants                                                       *)
(***************************************************************************)

MATCH_ONE_SEGMENT == <<"[", "^", "\\", ".", ":", "/", "]", "*", "?">>

MATCH_ANYTHING == <<".", "*", "?">>

\* A separator that lost its second slash.
PROTOCOL_SEPARATOR_OneSlash == <<":", "/">>

PROTOCOL_SEPARATOR == <<":", "/", "/">>

\* "(?i)^", pushed before the scan.
PatternPrefix == <<"(", "?", "i", ")", "^">>

OptionalSlash == <<"/", "?">>

EndAnchor == <<"$">>

(***************************************************************************)
(* The pattern engine (regex_lite), for the sub-language the compiler      *)
(* emits: literals, escaped literals, '.', bracketed classes, the          *)
(* quantifiers ? * + (lazy or not), the anchors ^ $ and the (?i) flag.     *)
(* Groups and alternation are never emitted unescaped and are rejected.    *)
(***************************************************************************)

UpperLetters == <<"A", "B", "C", "D", "E", "F", "G", "H", "I", "J", "K", "L", "M",
                  "N", "O", "P", "Q", "R", "S", "T", "U", "V", "W", "X", "Y", "Z">>

LowerLetters == <<"a", "b", "c", "d", "e", "f", "g", "h", "i", "j", "k", "l", "m",
                  "n", "o", "p", "q", "r", "s", "t", "u", "v", "w", "x", "y", "z">>

\* ASCII case folding, as the (?i) flag applies it.
Lower(c) ==
    IF \E k \in 1..26 : UpperLetters[k] = c
    THEN LowerLetters[CHOOSE k \in 1..26 : UpperLetters[k] = c]
    ELSE c

LineFeed == "\n"

Quantifiers == {"?", "*", "+"}

Token(kind, ch, set, neg) == [kind |-> kind, ch |-> ch, set |-> set, neg |-> neg, q |-> "one"]

\* The quantifier that starts at position j of the text, and where the text goes on.
QuantAt(t, j) ==
    IF j <= Len(t) /\ t[j] \in Quantifiers
    THEN [q |-> t[j], next |-> IF j + 1 <= Len(t) /\ t[j + 1] = "?" THEN j + 2 ELSE j + 1]
    ELSE [q |-> "one", next |-> j]

RECURSIVE ClassItems(_, _, _)
\* The members of a bracketed class from position j on: [ok, set, next].
ClassItems(t, j, acc) ==
    IF j > Len(t) THEN [ok |-> FALSE, set |-> acc, next |-> j]
    ELSE IF t[j] = "]" THEN [ok |-> TRUE, set |-> acc, next |-> j + 1]
    ELSE IF t[j] = "\\"
         THEN IF j + 1 > Len(t) THEN [ok |-> FALSE, set |-> acc, next |-> j]
              ELSE ClassItems(t, j + 2, acc \cup {t[j + 1]})
    ELSE ClassItems(t, j + 1, acc \cup {t[j]})

\* The atom that starts at position i: [ok, tok, next].
AtomAt(t, i) ==
    LET c == t[i]
        bad == [ok |-> FALSE, tok |-> Token("lit", c, {}, FALSE), next |-> i]
    IN CASE c = "^" -> [ok |-> TRUE, tok |-> Token("start", c, {}, FALSE), next |-> i + 1]
         [] c = "$" -> [ok |-> TRUE, tok |-> Token("end", c, {}, FALSE), next |-> i + 1]
         [] c = "\\" -> IF i + 1 > Len(t) THEN bad
                        ELSE [ok |-> TRUE, tok |-> Token("lit", t[i + 1], {}, FALSE), next |-> i + 2]
         [] c = "." -> [ok |-> TRUE, tok |-> Token("any", c, {}, FALSE), next |-> i + 1]
         [] c = "[" ->
              LET neg == i + 1 <= Len(t) /\ t[i + 1] = "^"
                  items == ClassItems(t, IF neg THEN i + 2 ELSE i + 1, {})
              IN IF items.ok
                 THEN [ok |-> TRUE, tok |-> Token("class", c, items.set, neg), next |-> items.next]
                 ELSE bad
         [] c \in Quantifiers \cup {"(", ")", "|", "{"} -> bad
         [] OTHER -> [ok |-> TRUE, tok |-> Token("lit", c, {}, FALSE), next |-> i + 1]

CaseFlag == <<"(", "?", "i", ")">>

HasCaseFlag(t) == OccursAt(t, CaseFlag, 1)

\* One atom and its quantifier read at the parser's position.  [at] is the
\* parser's state: whether the text is well formed so far, its position i and
\* the tokens read so far.
ParseStep(t, at) ==
    LET a == AtomAt(t, at.i)
        qn == QuantAt(t, a.next)
    IN IF ~a.ok \/ (qn.q # "one" /\ a.tok.kind \in {"start", "end"})
       THEN [at EXCEPT !.ok = FALSE]
       ELSE [ok |-> TRUE, i |-> qn.next, toks |-> Append(at.toks, [a.tok EXCEPT !.q = qn.q])]

RECURSIVE ParseFrom(_, _)
\* The tokens of the text from the parser's position on: [ok, toks].
ParseFrom(t, at) ==
    IF ~at.ok \/ at.i > Len(t) THEN [ok |-> at.ok, toks |-> at.toks]
    ELSE ParseFrom(t, ParseStep(t, at))

\* The parser's state before the first atom.
ParseStart(t) == [ok |-> TRUE, i |-> IF HasCaseFlag(t) THEN 5 ELSE 1, toks |-> <<>>]

\* Regex::new(): TRUE iff the pattern text is accepted by the engine.
RegexNew(t) == ParseFrom(t, ParseStart(t)).ok

RegexTokens(t) == ParseFrom(t, ParseStart(t)).toks

\* One character against one atom.
AtomMatches(tok, c, ci) ==
    CASE tok.kind = "lit" -> IF ci THEN Lower(c) = Lower(tok.ch) ELSE c = tok.ch
      [] tok.kind = "any" -> c # LineFeed
      [] tok.kind = "class" ->
           LET in == IF ci THEN \E m \in tok.set : Lower(m) = Lower(c) ELSE c \in tok.set
           IN in # tok.neg
      [] OTHER -> FALSE

\* The number of tokens from k on that are unquantified atoms.
PlainRun(toks, k) ==
    LET stops == {m \in k..Len(toks) : toks[m].kind \in {"start", "end"} \/ toks[m].q # "one"}
    IN IF stops = {} THEN Len(toks) + 1 - k
       ELSE (CHOOSE m \in stops : \A o \in stops : m <= o) - k

\* The numbers of characters from position j on that a quantified atom can take.
Reps(tok, s, j, ci) ==
    LET least == IF tok.q = "+" THEN 1 ELSE 0
        most == IF tok.q = "?" THEN 1 ELSE Len(s) + 1 - j
    IN {n \in least..most :
           /\ j + n - 1 <= Len(s)
           /\ \A i \in j..(j + n - 1) : AtomMatches(tok, s[i], ci)}

RECURSIVE MatchFrom(_, _, _, _, _)
\* TRUE iff tokens k.. match a stretch of s that starts at position j.
MatchFrom(toks, k, s, j, ci) ==
    IF k > Len(toks) THEN TRUE
    ELSE LET tok == toks[k]
             run == PlainRun(toks, k)
         IN CASE tok.kind = "start" -> j = 1 /\ MatchFrom(toks, k + 1, s, j, ci)
              [] tok.kind = "end" -> j = Len(s) + 1 /\ MatchFrom(toks, k + 1, s, j, ci)
              [] run > 0 ->
                   /\ j + run - 1 <= Len(s)
                   /\ \A i \in 0..(run - 1) : AtomMatches(toks[k + i], s[j + i], ci)
                   /\ MatchFrom(toks, k + run, s, j + run, ci)
              [] OTHER -> \E n \in Reps(tok, s, j, ci) : MatchFrom(toks, k + 1, s, j + n, ci)

\* Regex::is_match(): the pattern matches somewhere in s.
RegexIsMatch(t, s) ==
    LET toks == RegexTokens(t)
        ci == HasCaseFlag(t)
    IN \E j \in 1..(Len(s) + 1) : MatchFrom(toks, 1, s, j, ci)

(***************************************************************************)
(* The compiler: glob_to_regex and build_glob                              *)
(***************************************************************************)

MetaCharacters == {"\\", ".", "+", "*", "?", "(", ")", "|", "[", "]", "{",
                   "}", "^", "$", "#", "&", "-", "~"}

\* A metacharacter list that lost '+'.
is_regex_meta_character_NoPlus(c) == c \in MetaCharacters \ {"+"}

is_regex_meta_character(c) == c \in MetaCharacters

\* glob.chars().skip(protocol_index + 1).position(|c| c == '?').map(|it| it + protocol_index + 1)
url_query_params_index(g, protocol_index) ==
    LET hits == {i \in (protocol_index + 1)..(Len(g) - 1) : g[i + 1] = "?"}
    IN IF hits = {} THEN None
       ELSE CHOOSE i \in hits : \A k \in hits : i <= k

\* The guard of the first match arm: this '/' is emitted as an optional slash.
IsOptionalSlash(index, protocol_index, query_index) ==
    \/ query_index = None /\ index > protocol_index + 2
    \/ query_index # None /\ index + 1 = query_index

\* A "**" that is unbounded in the protocol too.
DoubleStarPattern_Unbounded(index, protocol_index) == MATCH_ANYTHING

\* The arm ('*', Some('*')).
DoubleStarPattern(index, protocol_index) ==
    IF index < protocol_index THEN MATCH_ONE_SEGMENT ELSE MATCH_ANYTHING

\* A single '*' that stays a segment wildcard in the query part.
SingleStarPattern_NoQuery(index, query_index) == MATCH_ONE_SEGMENT

\* The arm ('*', _).
SingleStarPattern(index, query_index) ==
    IF query_index # None /\ index > query_index THEN MATCH_ANYTHING ELSE MATCH_ONE_SEGMENT

\* The default arm: the character, escaped if it is a metacharacter.
EscapeLiteral(c) == IF is_regex_meta_character(c) THEN <<"\\", c>> ELSE <<c>>

\* One turn of the while loop at a valid index: [text pushed, next index].
ScanStep(g, protocol_index, query_index, index) ==
    LET current == nth(g, index)
        next == nth(g, index + 1)
    IN CASE current = "/" /\ IsOptionalSlash(index, protocol_index, query_index) ->
              [text |-> OptionalSlash, next |-> index + 1]
         [] current = "*" /\ next = "*" ->
              [text |-> DoubleStarPattern(index, protocol_index), next |-> index + 2]
         [] current = "*" ->
              [text |-> SingleStarPattern(index, query_index), next |-> index + 1]
         [] OTHER ->
              [text |-> EscapeLiteral(current), next |-> index + 1]

\* One turn of the while loop.  [loop] is the state of the loop: index,
\* regex_pattern, for each turn so far the index it was at and the text it
\* pushed (trace), and whether unwrap() has aborted (tag).
ScanTurn(g, protocol_index, query_index, loop) ==
    IF nth(g, loop.index) = NoChar THEN [loop EXCEPT !.tag = "Panic"]
    ELSE LET step == ScanStep(g, protocol_index, query_index, loop.index)
         IN [tag |-> "Ok",
             index |-> step.next,
             regex_pattern |-> loop.regex_pattern \o step.text,
             trace |-> Append(loop.trace, [index |-> loop.index, text |-> step.text])]

RECURSIVE ScanLoop(_, _, _, _)
\* while index < glob.len(): the loop runs to the BYTE length, nth() indexes
\* by CHARACTER, and unwrap() of None aborts.
ScanLoop(g, protocol_index, query_index, loop) ==
    IF loop.tag = "Panic" \/ ~(loop.index < ByteLen(g))
    THEN [tag |-> loop.tag, pattern |-> loop.regex_pattern, trace |-> loop.trace]
    ELSE ScanLoop(g, protocol_index, query_index,
                  ScanTurn(g, protocol_index, query_index, loop))

\* let mut index = 0; let mut regex_pattern = String::from("(?i)^");
ScanStart == [tag |-> "Ok", index |-> 0, regex_pattern |-> PatternPrefix, trace |-> <<>>]

EndsWith(s, suffix) ==
    /\ Len(s) >= Len(suffix)
    /\ SubSeq(s, Len(s) - Len(suffix) + 1, Len(s)) = suffix

\* An ending that anchors the optional trailing slash and then anchors again.
FinishPattern_AnchorTwice(regex_pattern, query_index) ==
    (IF query_index = None /\ ~EndsWith(regex_pattern, OptionalSlash)
     THEN regex_pattern \o OptionalSlash \o EndAnchor
     ELSE regex_pattern) \o EndAnchor

\* The text after the loop: the optional trailing slash and the end anchor.
FinishPattern(regex_pattern, query_index) ==
    (IF query_index = None /\ ~EndsWith(regex_pattern, OptionalSlash)
     THEN regex_pattern \o OptionalSlash
     ELSE regex_pattern) \o EndAnchor

\* glob_to_regex(): [tag |-> "Ok" | "Err" | "Panic", pattern |-> the pattern text].
glob_to_regex(g, protocol_index) ==
    LET query_index == url_query_params_index(g, protocol_index)
        scanned == ScanLoop(g, protocol_index, query_index, ScanStart)
    IN IF scanned.tag = "Panic" THEN [tag |-> "Panic", pattern |-> scanned.pattern]
       ELSE LET regex_pattern == FinishPattern(scanned.pattern, query_index)
            IN IF RegexNew(regex_pattern)
               THEN [tag |-> "Ok", pattern |-> regex_pattern]
               ELSE [tag |-> "Err", pattern |-> regex_pattern]

ErrorHead == <<"I", "n", "v", "a", "l", "i", "d", " ", "g", "l", "o", "b", " ", "'">>

ErrorTail == <<"'", ",", " ", "m", "i", "s", "s", "i", "n", "g", " ",
               "p", "r", "o", "t", "o", "c", "o", "l", " ",
               "s", "e", "p", "a", "r", "a", "t", "o", "r", " ", "'", ":", "/", "/", "'">>

\* eyre!("Invalid glob '{glob}', missing protocol separator '://'")
MissingSeparatorError(g) == ErrorHead \o g \o ErrorTail

\* The message of a pattern-engine error (opaque).
RegexError == <<"r", "e", "g", "e", "x">>

NoPattern == <<>>

NoError == <<>>

\* build_glob(): [tag, with_protocol, without_protocol, error].
build_glob(g) ==
    LET protocol_index == str_find(g, PROTOCOL_SEPARATOR)
        failed(tag, msg) == [tag |-> tag, with_protocol |-> NoPattern,
                             without_protocol |-> NoPattern, error |-> msg]
    IN IF protocol_index = None THEN failed("Err", MissingSeparatorError(g))
       ELSE LET glob_without_protocol == SliceFrom(g, protocol_index + ByteLen(PROTOCOL_SEPARATOR))
                first == glob_to_regex(g, protocol_index)
            IN IF first.tag = "Panic" THEN failed("Panic", NoError)
               ELSE IF first.tag = "Err" THEN failed("Err", RegexError)
               ELSE LET second == glob_to_regex(glob_without_protocol, 0)
                    IN IF second.tag = "Panic" THEN failed("Panic", NoError)
                       ELSE IF second.tag = "Err" THEN failed("Err", RegexError)
                       ELSE [tag |-> "Ok", with_protocol |-> first.pattern,
                             without_protocol |-> second.pattern, error |-> NoError]

\* The turns of the scan of g: a sequence of [index, text].
ScanTrace(g, protocol_index) ==
    ScanLoop(g, protocol_index, url_query_params_index(g, protocol_index), ScanStart).trace

\* Glob::is_match(), on the two compiled patterns.
is_match(with, without, u) ==
    LET protocol_index == str_find(u, PROTOCOL_SEPARATOR)
    IN IF protocol_index # None THEN RegexIsMatch(with, u) ELSE RegexIsMatch(without, u)

(***************************************************************************)
(* The program: globs are compiled, compiled matchers are asked            *)
(***************************************************************************)

\* fs::read_to_string() found no file.
NotFound == "NotFound"

\* fs::read_to_string() failed with another error kind.
Unreadable == "Unreadable"

\* The file holds nothing but white space.
Blank == "Blank"

\* The file holds a text.
Text == "Text"

\* A configuration file: what reading it gives (kind) and, for a text that is
\* well-formed JSON with both fields, the fields in the order of the text.
File(kind, regex_first, ignored_urls, ignored_urls_regex) ==
    [kind |-> kind, regex_first |-> regex_first,
     ignored_urls |-> ignored_urls, ignored_urls_regex |-> ignored_urls_regex]

\* No file has been read.
NotRead == File("NotRead", FALSE, <<>>, <<>>)

\* What read_app_config() gives when it gives no AppConfig: Ok(None), an error,
\* or nothing at all because the process was aborted (tag).
NoConfig(tag) == [tag |-> tag, ignored_urls |-> <<>>, ignored_urls_regex |-> <<>>]

Init ==
    /\ pc = "idle"
    /\ glob = <<>>
    /\ with_protocol = NoPattern
    /\ without_protocol = NoPattern
    /\ error = NoError
    /\ url = <<>>
    /\ matched = FALSE
    /\ app_pc = "read"
    /\ config_file = NotRead
    /\ config = NoConfig("NotRead")
    /\ args = <<>>
    /\ filtered_args = <<>>
    /\ opened = <<>>
    /\ outcome = "Running"

\* Glob::new(g): [pc] becomes "built" (a matcher), "failed" (an error) or
\* "aborted" (a failed unwrap ends the process).  build_glob reads nothing but
\* its argument, so one construction per behaviour shows what every one does.
New(g) ==
    /\ pc = "idle"
    /\ LET r == build_glob(g)
       IN /\ pc' = CASE r.tag = "Ok" -> "built"
                     [] r.tag = "Err" -> "failed"
                     [] OTHER -> "aborted"
          /\ with_protocol' = r.with_protocol
          /\ without_protocol' = r.without_protocol
          /\ error' = r.error
    /\ glob' = g
    /\ url' = <<>>
    /\ matched' = FALSE
    /\ UNCHANGED appvars

\* Glob::is_match(u) on the matcher that was built.  The matcher is immutable and
\* is_match is pure, so one call per behaviour shows what every call does.
IsMatch(u) ==
    /\ pc = "built"
    /\ pc' = "asked"
    /\ url' = u
    /\ matched' = is_match(with_protocol, without_protocol, u)
    /\ UNCHANGED <<glob, with_protocol, without_protocol, error>>
    /\ UNCHANGED appvars

(***************************************************************************)
(* The application: the configuration is read, the arguments are filtered, *)
(* what is left is handed to Firefox                                       *)
(***************************************************************************)

\* Self::new(&s).map_err(D::Error::custom): what Glob::new gave, as an element.
GlobElement(r) ==
    [tag |-> r.tag,
     value |-> [with_protocol |-> r.with_protocol, without_protocol |-> r.without_protocol]]

\* impl Deserialize for Glob: the matcher, or the error of Glob::new, or its abort.
DeserializeGlob(s) == GlobElement(build_glob(s))

\* impl Deserialize for MyRegex: Regex::new(&s), its error made a custom error.
DeserializeMyRegex(s) ==
    [tag |-> IF RegexNew(s) THEN "Ok" ELSE "Err", value |-> s]

\* Vec<T>::deserialize, given what deserialising each element in order gives:
\* the first one that fails ends it.
DeserializeVec(elements) ==
    LET bad == {i \in 1..Len(elements) : elements[i].tag # "Ok"}
    IN IF bad = {}
       THEN [tag |-> "Ok", value |-> [i \in 1..Len(elements) |-> elements[i].value]]
       ELSE [tag |-> elements[CHOOSE i \in bad : \A o \in bad : i <= o].tag, value |-> <<>>]

\* The two fields are read in the order the text has them; the first failure
\* ends the reading.
FirstFailure(first, second) == IF first.tag # "Ok" THEN first.tag ELSE second.tag

\* The AppConfig made of the two lists, if both were read.
AppConfigOf(globs, regexes, regex_first) ==
    LET tag == IF regex_first THEN FirstFailure(regexes, globs) ELSE FirstFailure(globs, regexes)
    IN IF tag = "Ok"
       THEN [tag |-> "Some", ignored_urls |-> globs.value, ignored_urls_regex |-> regexes.value]
       ELSE NoConfig(tag)

\* serde_json::from_str::<AppConfig>().
from_str(contents) ==
    AppConfigOf(DeserializeVec([i \in 1..Len(contents.ignored_urls) |->
                                   DeserializeGlob(contents.ignored_urls[i])]),
                DeserializeVec([i \in 1..Len(contents.ignored_urls_regex) |->
                                   DeserializeMyRegex(contents.ignored_urls_regex[i])]),
                contents.regex_first)

\* read_app_config(): [tag |-> "Some" | "None" | "Err" | "Panic", the two lists].
read_app_config(file) ==
    CASE file.kind = NotFound -> NoConfig("None")
      [] file.kind = Unreadable -> NoConfig("Err")
      [] file.kind = Blank -> NoConfig("None")
      [] OTHER -> from_str(file)

\* A closure that lets a URL stay when one of the two lists does not match it.
Stays_EitherList(c, u) ==
    \/ \A i \in 1..Len(c.ignored_urls) :
           ~is_match(c.ignored_urls[i].with_protocol, c.ignored_urls[i].without_protocol, u)
    \/ \A i \in 1..Len(c.ignored_urls_regex) :
           ~RegexIsMatch(c.ignored_urls_regex[i], u)

\* The closure of filter(): the URL stays.
Stays(c, u) ==
    /\ \A i \in 1..Len(c.ignored_urls) :
           ~is_match(c.ignored_urls[i].with_protocol, c.ignored_urls[i].without_protocol, u)
    /\ \A i \in 1..Len(c.ignored_urls_regex) :
           ~RegexIsMatch(c.ignored_urls_regex[i], u)

\* filter_args() once read_app_config() has returned Ok(c): the URLs that stay.
filter_args(c, a) ==
    LET keep(u) == Stays(c, u)
    IN IF c.tag = "None" THEN a ELSE SelectSeq(a, keep)

\* handle_links() calls filter_args(), which first calls read_app_config(): an
\* error is returned by both ("?"), an abort ends the process.
ReadAppConfig(file) ==
    /\ app_pc = "read"
    /\ config_file' = file
    /\ config' = read_app_config(file)
    /\ app_pc' = IF config'.tag \in {"Some", "None"} THEN "filter" ELSE "done"
    /\ outcome' = CASE config'.tag = "Err" -> "Err"
                    [] config'.tag = "Panic" -> "Aborted"
                    [] OTHER -> "Running"
    /\ UNCHANGED <<args, filtered_args, opened>>
    /\ UNCHANGED globvars

\* The rest of filter_args() on the arguments a of handle_links(), and the
\* early return of handle_links() when nothing is left.
FilterArgs(a) ==
    /\ app_pc = "filter"
    /\ args' = a
    /\ filtered_args' = filter_args(config, a)
    /\ app_pc' = IF Len(filtered_args') = 0 THEN "done" ELSE "open"
    /\ outcome' = IF Len(filtered_args') = 0 THEN "Ok" ELSE "Running"
    /\ UNCHANGED <<config_file, config, opened>>
    /\ UNCHANGED globvars

\* The rest of handle_links(): open_with_firefox() is given the filtered
\* arguments, the same list whichever Firefox and profile are found.
\* [spawned] says whether Command::spawn() succeeded.
OpenWithFirefox(spawned) ==
    /\ app_pc = "open"
    /\ app_pc' = "done"
    /\ opened' = IF spawned THEN filtered_args ELSE <<>>
    /\ outcome' = IF spawned THEN "Ok" ELSE "Err"
    /\ UNCHANGED <<config_file, config, args, filtered_args>>
    /\ UNCHANGED globvars

SeqsUpTo(S, n) == UNION {[1..k -> S] : k \in 0..n}

RECURSIVE Concats(_, _)
\* The concatenations of at most n members of the set of strings S.
Concats(S, n) ==
    IF n = 0 THEN {<<>>}
    ELSE LET shorter == Concats(S, n - 1)
         IN shorter \cup {x \o c : x \in shorter, c \in S}

(***************************************************************************)
(* Spec: any string as a glob (with and without the separator, with and    *)
(* without a two-byte character)                                           *)
(***************************************************************************)

MaxGlobLen == 5

MaxUrlLen == 3

GlobChars == {"a", ":", "/", "*", EAcute}

UrlChars == {"a", ":", "/"}

Globs == SeqsUpTo(GlobChars, MaxGlobLen)

Urls == SeqsUpTo(UrlChars, MaxUrlLen)

Next ==
    \/ \E g \in Globs : New(g)
    \/ \E u \in Urls : IsMatch(u)

Spec == Init /\ [][Next]_vars

(***************************************************************************)
(* SpecPath: globs with slashes, a query part and wildcards after the      *)
(* separator; candidates with and without a protocol                       *)
(***************************************************************************)

MaxPathParts == 4

MaxPathUrlParts == 3

PathProtocols == {<<"a">>}

PathParts == {<<"a">>, <<"/">>, <<"?">>, <<"*">>}

PathUrlHeads == {<<>>, <<"a", ":", "/", "/">>, <<"a", ":", "/">>, <<"a", ":">>}

PathUrlParts == {<<"a">>, <<"/">>, <<"?">>, <<":", "/", "/">>}

PathGlobs == {p \o PROTOCOL_SEPARATOR \o r : p \in PathProtocols, r \in Concats(PathParts, MaxPathParts)}

PathUrls == {h \o t : h \in PathUrlHeads, t \in Concats(PathUrlParts, MaxPathUrlParts)}

NextPath ==
    \/ \E g \in PathGlobs : New(g)
    \/ \E u \in PathUrls : IsMatch(u)

SpecPath == Init /\ [][NextPath]_vars

(***************************************************************************)
(* SpecWild: globs with '*', "**" and "***" in the protocol, the host and  *)
(* the query; candidates with '.', ':' and '/'; the examples of the tests  *)
(***************************************************************************)

MaxWildParts == 2

MaxWildUrlParts == 3

G_StarSubdomain ==
    <<"h", "t", "t", "p", "s", ":", "/", "/", "*", ".", "e", "x", "a", "m", "p", "l", "e", ".", "c", "o", "m">>

G_QueryStar ==
    <<"h", "t", "t", "p", "s", ":", "/", "/", "e", "x", "a", "m", "p", "l", "e", ".", "c", "o", "m", "/", "s", "e", "a", "r", "c", "h", "?", "q", "=", "*">>

G_StarStarProtocol ==
    <<"*", "*", ":", "/", "/", "e", "x", "a", "m", "p", "l", "e", ".", "c", "o", "m">>

G_StarStarHost ==
    <<"h", "t", "t", "p", "s", ":", "/", "/", "*", "*", "e", "x", "a", "m", "p", "l", "e", ".", "c", "o", "m">>

G_TripleStar ==
    <<"h", "t", "t", "p", "s", ":", "/", "/", "*", "*", "*", "e", "x", "a", "m", "p", "l", "e", ".", "c", "o", "m">>

U_Www ==
    <<"h", "t", "t", "p", "s", ":", "/", "/", "w", "w", "w", ".", "e", "x", "a", "m", "p", "l", "e", ".", "c", "o", "m">>

U_TwoLabels ==
    <<"h", "t", "t", "p", "s", ":", "/", "/", "a", ".", "b", ".", "e", "x", "a", "m", "p", "l", "e", ".", "c", "o", "m">>

U_ColonLabel ==
    <<"h", "t", "t", "p", "s", ":", "/", "/", "a", ":", "b", ".", "e", "x", "a", "m", "p", "l", "e", ".", "c", "o", "m">>

U_QueryAmp ==
    <<"h", "t", "t", "p", "s", ":", "/", "/", "e", "x", "a", "m", "p", "l", "e", ".", "c", "o", "m", "/", "s", "e", "a", "r", "c", "h", "?", "q", "=", "a", "&", "b", "=", "c">>

U_QueryDotSlash ==
    <<"h", "t", "t", "p", "s", ":", "/", "/", "e", "x", "a", "m", "p", "l", "e", ".", "c", "o", "m", "/", "s", "e", "a", "r", "c", "h", "?", "q", "=", "a", ".", "b", "/", "c">>

U_Plain ==
    <<"h", "t", "t", "p", "s", ":", "/", "/", "e", "x", "a", "m", "p", "l", "e", ".", "c", "o", "m">>

U_DottedProtocol ==
    <<"h", "t", "t", "p", "s", ".", "e", "x", "t", "r", "a", ":", "/", "/", "e", "x", "a", "m", "p", "l", "e", ".", "c", "o", "m">>

U_ThreeLabels ==
    <<"h", "t", "t", "p", "s", ":", "/", "/", "a", ".", "b", ".", "c", ".", "e", "x", "a", "m", "p", "l", "e", ".", "c", "o", "m">>

WildProtocols == {<<"s">>, <<"*", "*">>, <<"s", "*">>}

WildParts == {<<"a">>, <<"*">>, <<"*", "*">>, <<".">>, <<"?">>}

WildUrlParts == {<<"a">>, <<".">>, <<":">>, <<"/">>}

WildGlobs ==
    {p \o PROTOCOL_SEPARATOR \o r : p \in WildProtocols, r \in Concats(WildParts, MaxWildParts)}
    \cup {G_StarSubdomain, G_QueryStar, G_StarStarProtocol, G_StarStarHost, G_TripleStar}

WildUrls ==
    Concats(WildUrlParts, MaxWildUrlParts)
    \cup {U_Www, U_TwoLabels, U_ColonLabel, U_QueryAmp, U_QueryDotSlash, U_Plain,
          U_DottedProtocol, U_ThreeLabels}

NextWild ==
    \/ \E g \in WildGlobs : New(g)
    \/ \E u \in WildUrls : IsMatch(u)

SpecWild == Init /\ [][NextWild]_vars

(***************************************************************************)
(* SpecMeta: globs with pattern-engine metacharacters, most of them        *)
(* wildcard-free; the candidates are the glob's own text (with and without *)
(* the protocol) and the texts one edit away from it                       *)
(***************************************************************************)

MaxMetaParts == 2

G_Plus ==
    <<"h", "t", "t", "p", "s", ":", "/", "/", "e", "x", "a", "m", "p", "l", "e", ".", "c", "o", "m", "/", "a", "+", "b">>

G_Dot ==
    <<"h", "t", "t", "p", "s", ":", "/", "/", "e", "x", "a", "m", "p", "l", "e", ".", "c", "o", "m">>

G_Parens ==
    <<"h", "t", "t", "p", "s", ":", "/", "/", "e", "x", "a", "m", "p", "l", "e", ".", "c", "o", "m", "/", "(", "p", "a", "g", "e", ")">>

G_Brackets ==
    <<"h", "t", "t", "p", "s", ":", "/", "/", "e", "x", "a", "m", "p", "l", "e", ".", "c", "o", "m", "/", "[", "1", "]", "{", "2", "}">>

MetaProtocols == {<<"h">>}

MetaParts == {<<"a">>, <<"/">>, <<"*">>, <<".">>, <<"+">>, <<"(">>, <<")">>, <<"[">>, <<"]">>,
              <<"{">>, <<"}">>, <<"?">>, <<"$">>}

MetaGlobs ==
    {p \o PROTOCOL_SEPARATOR \o r : p \in MetaProtocols, r \in Concats(MetaParts, MaxMetaParts)}
    \cup {G_Plus, G_Dot, G_Parens, G_Brackets}

\* The characters an edit puts in.
EditChars == {"a", "A", "X", "/", ".", "+"}

\* s, and s with one character replaced, left out or doubled.
Edits(s) ==
    {s}
    \cup {[s EXCEPT ![i] = c] : i \in 1..Len(s), c \in EditChars}
    \cup {SubSeq(s, 1, i - 1) \o SubSeq(s, i + 1, Len(s)) : i \in 1..Len(s)}
    \cup {SubSeq(s, 1, i) \o SubSeq(s, i, Len(s)) : i \in 1..Len(s)}

\* The candidates near glob g: near its text, and near its text after "://".
NearUrls(g) ==
    Edits(g) \cup Edits(SubSeq(g, FindFrom(g, PROTOCOL_SEPARATOR, 1) + 3, Len(g)))

NextMeta ==
    \/ \E g \in MetaGlobs : New(g)
    \/ \E u \in NearUrls(glob) : IsMatch(u)

SpecMeta == Init /\ [][NextMeta]_vars

(***************************************************************************)
(* SpecTracking: the tracking glob of the tests against URLs whose host is *)
(* a first label followed by the tracking domain and a foreign domain      *)
(***************************************************************************)

MaxHostParts == 3

G_Tracking ==
    <<"h", "t", "t", "p", "s", ":", "/", "/", "*", "*", ".", "t", "r", "a", "c", "k", "i", "n", "g", ".", "c", "o", "m", "/", "*", "*">>

G_TrackingHost ==
    <<"h", "t", "t", "p", "s", ":", "/", "/", "*", ".", "t", "r", "a", "c", "k", "i", "n", "g", ".", "c", "o", "m">>

U_Pixel ==
    <<"h", "t", "t", "p", "s", ":", "/", "/", "p", "i", "x", "e", "l", ".", "t", "r", "a", "c", "k", "i", "n", "g", ".", "c", "o", "m", "/", "c", "o", "l", "l", "e", "c", "t", "?", "i", "d", "=", "1", "2", "3", "&", "e", "v", "e", "n", "t", "=", "c", "l", "i", "c", "k">>

U_EvilNet ==
    <<"h", "t", "t", "p", "s", ":", "/", "/", "t", "r", "a", "c", "k", "i", "n", "g", ".", "c", "o", "m", ".", "e", "v", "i", "l", ".", "n", "e", "t", "/", "x">>

Https ==
    <<"h", "t", "t", "p", "s", ":", "/", "/">>

HostHeads ==
    {<<"p", "i", "x", "e", "l">>,
     <<"t", "r", "a", "c", "k", "i", "n", "g", ".", "c", "o", "m">>}

HostParts ==
    {<<".", "t", "r", "a", "c", "k", "i", "n", "g", ".", "c", "o", "m">>,
     <<".", "e", "v", "i", "l", ".", "n", "e", "t">>}

UrlPaths ==
    {<<>>,
     <<"/">>,
     <<"/", "x">>,
     <<"/", "c", "o", "l", "l", "e", "c", "t", "?", "i", "d", "=", "1", "2", "3", "&", "e", "v", "e", "n", "t", "=", "c", "l", "i", "c", "k">>}

TrackingGlobs == {G_Tracking, G_TrackingHost}

TrackingUrls ==
    {Https \o h \o t \o p : h \in HostHeads, t \in Concats(HostParts, MaxHostParts), p \in UrlPaths}

NextTracking ==
    \/ \E g \in TrackingGlobs : New(g)
    \/ \E u \in TrackingUrls : IsMatch(u)

SpecTracking == Init /\ [][NextTracking]_vars

(***************************************************************************)
(* SpecApp: handle_links with every configuration file of a few entries    *)
(* (globs that compile, a glob without the separator, a glob with a        *)
(* two-byte character; raw patterns that compile and one that does not)    *)
(* and a few arguments                                                     *)
(***************************************************************************)

MaxEntries == 2

MaxArgs == 2

G_AnyHost == <<"a", ":", "/", "/", "*">>

G_OneHost == <<"a", ":", "/", "/", "a">>

G_NoSeparator == <<"a", "b">>

G_TwoByte == <<EAcute, ":", "/", "/">>

R_HasB == <<"b">>

R_EndsInA == <<"a", "$">>

R_OpenGroup == <<"(">>

U_LowerA == <<"a", ":", "/", "/", "a">>

U_UpperA == <<"a", ":", "/", "/", "A">>

U_DottedB == <<"b", ".", "b">>

U_DottedC == <<"c", ".", "c">>

AppGlobs == {G_AnyHost, G_OneHost, G_NoSeparator, G_TwoByte}

AppRegexes == {R_HasB, R_EndsInA, R_OpenGroup}

AppUrls == {U_LowerA, U_UpperA, U_DottedB, U_DottedC}

ConfigTexts ==
    {File(Text, regex_first, ignored_urls, ignored_urls_regex) :
         regex_first \in BOOLEAN,
         ignored_urls \in SeqsUpTo(AppGlobs, MaxEntries),
         ignored_urls_regex \in SeqsUpTo(AppRegexes, MaxEntries)}

ConfigFiles ==
    {File(kind, FALSE, <<>>, <<>>) : kind \in {NotFound, Unreadable, Blank}} \cup ConfigTexts

NextApp ==
    \/ \E file \in ConfigFiles : ReadAppConfig(file)
    \/ \E a \in SeqsUpTo(AppUrls, MaxArgs) : FilterArgs(a)
    \/ \E spawned \in BOOLEAN : OpenWithFirefox(spawned)

SpecApp == Init /\ [][NextApp]_vars

(***************************************************************************)
(* Notions the claims are stated in                                        *)
(***************************************************************************)

\* The string holds "://".
HasSeparator(s) ==
    \E i \in 1..(Len(s) - 2) : s[i] = ":" /\ s[i + 1] = "/" /\ s[i + 2] = "/"

\* part occurs in whole.
IsInfix(part, whole) ==
    \E i \in 0..(Len(whole) - Len(part)) : SubSeq(whole, i + 1, i + Len(part)) = part

Compiled == pc \in {"built", "asked"}

Asked == pc = "asked"

\* The 1-based position of the first "://" of a string that holds one.
SeparatorPos(s) ==
    CHOOSE i \in 1..(Len(s) - 2) :
        /\ s[i] = ":" /\ s[i + 1] = "/" /\ s[i + 2] = "/"
        /\ \A k \in 1..(i - 1) : ~(s[k] = ":" /\ s[k + 1] = "/" /\ s[k + 2] = "/")

\* The text of a glob after its first "://".
AfterSeparator(g) == SubSeq(g, SeparatorPos(g) + 3, Len(g))

Count(s, c) == Cardinality({i \in 1..Len(s) : s[i] = c})

\* The glob has a query part: a '?' after the protocol separator.
HasQueryPart(g) == Count(AfterSeparator(g), "?") > 0

\* The glob text behind the pattern that judges candidate u: the whole glob for
\* a candidate with "://", the text after the separator for one without.
JudgingGlob(u) == IF HasSeparator(u) THEN glob ELSE AfterSeparator(glob)

\* The two compilation passes of glob g: the text compiled and the separator
\* offset it is compiled with.
Passes(g) == {[sub |-> g, off |-> SeparatorPos(g) - 1],
              [sub |-> AfterSeparator(g), off |-> 0]}

\* Character index i (0-based) of s holds a '*'.
IsStar(s, i) == i >= 0 /\ i < Len(s) /\ s[i + 1] = "*"

\* The number of '*' that stand in a row right before index i.
StarsBefore(s, i) ==
    CHOOSE k \in 0..i :
        /\ \A m \in 1..k : IsStar(s, i - m)
        /\ ~IsStar(s, i - k - 1)

\* A wildcard starts at i: a '*' that is not the second half of a pair.
WildcardAt(s, i) == IsStar(s, i) /\ StarsBefore(s, i) % 2 = 0

SingleStarAt(s, i) == WildcardAt(s, i) /\ ~IsStar(s, i + 1)

DoubleStarAt(s, i) == WildcardAt(s, i) /\ IsStar(s, i + 1)

\* Index i lies after the query-parameter index: after a '?' that lies after
\* the separator offset.
AfterQueryIndex(s, off, i) == \E k \in (off + 1)..(i - 1) : s[k + 1] = "?"

\* What the scan pushed at index i (empty if it never stood at i).
TextsAt(trace, i) == {trace[k].text : k \in {m \in 1..Len(trace) : trace[m].index = i}}

\* The pattern engine accepts exactly the run w for the pushed text.
Accepts(text, w) == RegexIsMatch(PatternPrefix \o text \o EndAnchor, w)

\* A run with none of '.', ':', '/'.
SegmentRun(w) == \A k \in 1..Len(w) : w[k] \notin {".", ":", "/"}

\* s without its slashes, in lower case.
FoldedNoSlash(s) ==
    LET kept == SelectSeq(s, LAMBDA c : c # "/")
    IN [i \in 1..Len(kept) |-> Lower(kept[i])]

\* The two strings are equal up to the case of their letters.
SameUpToCase(a, b) ==
    Len(a) = Len(b) /\ \A i \in 1..Len(a) : Lower(a[i]) = Lower(b[i])

\* The host of a URL: the text between "://" and the next '/', or the end.
HostOf(u) ==
    LET rest == AfterSeparator(u)
        slashes == {i \in 1..Len(rest) : rest[i] = "/"}
    IN IF slashes = {} THEN rest
       ELSE SubSeq(rest, 1, (CHOOSE i \in slashes : \A k \in slashes : i <= k) - 1)

\* The runs a pushed text is tried on: every character alone and doubled, and
\* the empty run.
ProbeChars == {"a", "A", "h", "X", "/", ":", ".", "+", "(", ")", "[", "]", "{", "}",
               "?", "$", "*", "\\", "^", "|"}

Probes == {<<>>} \cup {<<c>> : c \in ProbeChars} \cup {<<c, c>> : c \in ProbeChars}

\* The number of slashes the pattern text asks for with quantifier q.
SlashTokens(text, q) ==
    LET toks == RegexTokens(text)
    IN Cardinality({k \in 1..Len(toks) :
           toks[k].kind = "lit" /\ toks[k].ch = "/" /\ toks[k].q = q})

\* 1 if a '/' stands right before the first '?' of s, else 0.
SlashBeforeQuery(s) ==
    IF \E i \in 2..Len(s) :
           /\ s[i] = "?" /\ s[i - 1] = "/"
           /\ \A k \in 1..(i - 1) : s[k] # "?"
    THEN 1 ELSE 0

Called == pc # "idle"

(***************************************************************************)
(* C1: a glob without "://" never compiles: Glob::new returns an error, no *)
(* matcher, and the error message holds the glob's text and "://".         *)
(***************************************************************************)
C1_MissingSeparatorIsError ==
    (Called /\ ~HasSeparator(glob)) =>
        /\ pc = "failed"
        /\ with_protocol = NoPattern /\ without_protocol = NoPattern
        /\ IsInfix(glob, error)
        /\ IsInfix(<<":", "/", "/">>, error)

\* A glob of several characters, a ':' and a '/' among them but no "://", was refused.
C1_Witness ==
    /\ pc = "failed"
    /\ Len(glob) >= 3
    /\ \E i \in 1..Len(glob) : glob[i] = ":"
    /\ \E i \in 1..Len(glob) : glob[i] = "/"
    /\ ~HasSeparator(glob)

(***************************************************************************)
(* C10: Glob::new never aborts, and returns a matcher for every glob that  *)
(* holds "://", whatever its characters.                                   *)
(***************************************************************************)
C10_SeparatorAlwaysCompiles ==
    /\ pc # "aborted"
    /\ (Called /\ HasSeparator(glob)) => Compiled

(***************************************************************************)
(* C2: the two slashes of the glob's "://" are mandatory in the            *)
(* with-protocol pattern, whatever follows the separator, so a candidate   *)
(* judged by that pattern is accepted only if its first ':' is followed by *)
(* two slashes.  (The protocols of SpecPath hold no ':' and no wildcard.)  *)
(***************************************************************************)
C2_SeparatorSlashesMandatory ==
    /\ Compiled =>
         LET toks == RegexTokens(with_protocol)
             colon == CHOOSE k \in 1..Len(toks) :
                          /\ toks[k].kind = "lit" /\ toks[k].ch = ":"
                          /\ \A m \in 1..(k - 1) : ~(toks[m].kind = "lit" /\ toks[m].ch = ":")
         IN \A k \in {colon + 1, colon + 2} :
                toks[k].kind = "lit" /\ toks[k].ch = "/" /\ toks[k].q = "one"
    /\ (Asked /\ matched /\ HasSeparator(url)) =>
         LET colon == CHOOSE i \in 1..Len(url) :
                          url[i] = ":" /\ \A k \in 1..(i - 1) : url[k] # ":"
         IN OccursAt(url, <<":", "/", "/">>, colon)

(***************************************************************************)
(* C3: in a glob with no query part every '/' but the two of the           *)
(* separator is an optional slash, in the with-protocol pattern and in the *)
(* without-protocol pattern; so a wildcard-free glob accepts its own text  *)
(* with those slashes left out.                                            *)
(***************************************************************************)
C3_OtherSlashesOptional ==
    (Compiled /\ ~HasQueryPart(glob)) =>
        /\ SlashTokens(with_protocol, "one") = 2
        /\ SlashTokens(without_protocol, "one") = 0
        /\ (Asked /\ Count(glob, "*") = 0 /\ ~HasSeparator(url)
              /\ url = SelectSeq(AfterSeparator(glob), LAMBDA c : c # "/")) => matched

(***************************************************************************)
(* C4: for a glob with no query part and a candidate that does not end in  *)
(* '/', is_match accepts the candidate iff it accepts the candidate        *)
(* followed by one '/'.                                                    *)
(***************************************************************************)
C4_TrailingSlashOptional ==
    (Asked /\ ~HasQueryPart(glob) /\ (url = <<>> \/ url[Len(url)] # "/")) =>
        (matched <=> is_match(with_protocol, without_protocol, Append(url, "/")))

(***************************************************************************)
(* C7: in a glob with a query part the only optional slash is a '/' right  *)
(* before the first '?'; every other '/' is mandatory and no optional      *)
(* trailing slash is appended, so an accepted candidate ends as the glob   *)
(* ends (unless the glob ends in a wildcard).                              *)
(***************************************************************************)
C7_QuerySlashesLiteral ==
    (Compiled /\ HasQueryPart(glob)) =>
        /\ SlashTokens(with_protocol, "?") = SlashBeforeQuery(glob)
        /\ SlashTokens(with_protocol, "one") = Count(glob, "/") - SlashBeforeQuery(glob)
        /\ SlashTokens(without_protocol, "?") = SlashBeforeQuery(AfterSeparator(glob))
        /\ SlashTokens(without_protocol, "one") =
               Count(AfterSeparator(glob), "/") - SlashBeforeQuery(AfterSeparator(glob))
        /\ (Asked /\ matched) =>
               LET g == JudgingGlob(url)
               IN g[Len(g)] # "*" => (url # <<>> /\ Lower(url[Len(url)]) = Lower(g[Len(g)]))

C8_LiteralCharacters ==
    /\ pc = "built" =>
         \A p \in Passes(glob) : \A i \in 0..(Len(p.sub) - 1) :
             p.sub[i + 1] \notin {"*", "/"} =>
                 LET texts == TextsAt(ScanTrace(p.sub, p.off), i)
                 IN /\ texts # {}
                    /\ \A text \in texts : \A w \in Probes :
                           Accepts(text, w) <=>
                               (Len(w) = 1 /\ Lower(w[1]) = Lower(p.sub[i + 1]))
    /\ (Asked /\ Count(glob, "*") = 0) =>
         /\ matched => FoldedNoSlash(url) = FoldedNoSlash(JudgingGlob(url))
         /\ SameUpToCase(url, JudgingGlob(url)) => matched

\* "a+b" refused "aab": the '+' of the glob is no quantifier.
C8_Witness ==
    /\ Asked /\ ~matched
    /\ glob = G_Plus
    /\ url = [G_Plus EXCEPT ![Len(G_Plus) - 1] = "a"]

(***************************************************************************)
(* C9: the tracking glob accepts the pixel URL, refuses                    *)
(* https://tracking.com.evil.net/x, and accepts no URL whose host does not *)
(* end in ".tracking.com".                                                 *)
(***************************************************************************)
C9_HostSuffix ==
    (Asked /\ glob = G_Tracking) =>
        /\ url = U_Pixel => matched
        /\ url = U_EvilNet => ~matched
        /\ matched => EndsWith(HostOf(url), <<".", "t", "r", "a", "c", "k", "i", "n", "g", ".", "c", "o", "m">>)

(***************************************************************************)
(* C11: with a configuration loaded, filter_args keeps an argument exactly *)
(* when no glob entry and no raw pattern entry of the configuration file   *)
(* matches it (one matching entry of either list drops it), and what it    *)
(* returns is the arguments that no entry matches, in their order, each as *)
(* often as it was given.                                                  *)
(***************************************************************************)

\* filter_args has filtered the arguments with a loaded configuration.
Filtered == config.tag = "Some" /\ app_pc \in {"open", "done"}

\* The glob entry g of the file, compiled on its own, matches u.
GlobEntryMatches(g, u) ==
    LET m == build_glob(g)
    IN m.tag = "Ok" /\ is_match(m.with_protocol, m.without_protocol, u)

\* Some entry of the file matches u.
SomeEntryMatches(file, u) ==
    \/ \E i \in 1..Len(file.ignored_urls) : GlobEntryMatches(file.ignored_urls[i], u)
    \/ \E i \in 1..Len(file.ignored_urls_regex) : RegexIsMatch(file.ignored_urls_regex[i], u)

\* The positions of the arguments that no entry of the file matches.
UnmatchedPositions(file, a) == {i \in 1..Len(a) : ~SomeEntryMatches(file, a[i])}

\* The k-th smallest member of a set of numbers.
KthOf(S, k) == CHOOSE i \in S : Cardinality({j \in S : j <= i}) = k

C11_FilterKeepsUnmatched ==
    Filtered =>
        LET unmatched == UnmatchedPositions(config_file, args)
        IN /\ Len(filtered_args) = Cardinality(unmatched)
           /\ \A k \in 1..Len(filtered_args) : filtered_args[k] = args[KthOf(unmatched, k)]
           /\ \A i \in 1..Len(args) :
                  (\E k \in 1..Len(filtered_args) : filtered_args[k] = args[i])
                      <=> i \in unmatched

\* Both lists have entries; of two arguments one was dropped and one was kept.
C11_Witness ==
    /\ Filtered
    /\ Len(config.ignored_urls) > 0 /\ Len(config.ignored_urls_regex) > 0
    /\ Len(args) = 2 /\ Len(filtered_args) = 1
    /\ \E i \in 1..Len(args) :
           /\ \A g \in 1..Len(config_file.ignored_urls) :
                  ~GlobEntryMatches(config_file.ignored_urls[g], args[i])
           /\ \E r \in 1..Len(config_file.ignored_urls_regex) :
                  RegexIsMatch(config_file.ignored_urls_regex[r], args[i])

(***************************************************************************)
(* C12: when a glob entry of the configuration file has no "://", or a raw *)
(* pattern entry is not accepted by the pattern engine, handle_links       *)
(* returns an error: there is no configuration (no entry is dropped to     *)
(* make one from the others), the arguments are not filtered, and no URL   *)
(* is opened.                                                              *)
(***************************************************************************)

\* The file is a text with a glob entry without "://" or an invalid raw pattern.
HasInvalidEntry(file) ==
    /\ file.kind = Text
    /\ \/ \E i \in 1..Len(file.ignored_urls) : ~HasSeparator(file.ignored_urls[i])
       \/ \E i \in 1..Len(file.ignored_urls_regex) : ~RegexNew(file.ignored_urls_regex[i])

C12_InvalidEntryFailsLoading ==
    (app_pc # "read" /\ HasInvalidEntry(config_file)) =>
        /\ outcome = "Err"
        /\ app_pc = "done"
        /\ config = NoConfig("Err")
        /\ filtered_args = <<>>
        /\ opened = <<>>

(***************************************************************************)
(* C13, as claimed: no compiled pattern text holds "$$".                   *)
(***************************************************************************)

TwoDollars == <<"$", "$">>

C13_NoTwoDollars ==
    pc = "built" => (~IsInfix(TwoDollars, with_protocol) /\ ~IsInfix(TwoDollars, without_protocol))

(***************************************************************************)
(* C13, amended: a compiled pattern has one end anchor, its last token;    *)
(* its text holds "$$" at most as its last two characters, and then the    *)
(* glob ends in '$' and the first of the two is that '$', escaped.         *)
(***************************************************************************)

\* The positions of the end anchors among the tokens of a pattern text.
EndAnchors(t) == {k \in 1..Len(RegexTokens(t)) : RegexTokens(t)[k].kind = "end"}

\* The positions where "$$" starts in a text.
TwoDollarsAt(t) == {i \in 1..(Len(t) - 1) : t[i] = "$" /\ t[i + 1] = "$"}

C13_OneEndAnchor ==
    pc = "built" =>
        \A t \in {with_protocol, without_protocol} :
            /\ EndAnchors(t) = {Len(RegexTokens(t))}
            /\ \A i \in TwoDollarsAt(t) :
                   /\ i + 1 = Len(t)
                   /\ glob[Len(glob)] = "$"
                   /\ EndsWith(t, <<"\\", "$", "$">>)
                   /\ LET toks == RegexTokens(t)
                      IN /\ Len(toks) >= 2
                         /\ toks[Len(toks) - 1].kind = "lit"
                         /\ toks[Len(toks) - 1].ch = "$"

\* A glob with a query part that ends in '$': the text ends in an escaped '$'
\* and the end anchor.
C13_Witness ==
    /\ pc = "built"
    /\ glob = <<"h", ":", "/", "/", "?", "$">>
    /\ TwoDollarsAt(with_protocol) = {Len(with_protocol) - 1}
    /\ TwoDollarsAt(without_protocol) = {}

(***************************************************************************)
(* C14: for a glob S://R with no wildcard in S and a candidate without     *)
(* "://", is_match gives the bare candidate the answer it gives the        *)
(* candidate with S:// put before it.                                      *)
(***************************************************************************)

\* The protocol part of a glob: what stands before its first "://".
ProtocolOf(g) == SubSeq(g, 1, SeparatorPos(g) - 1)

\* The candidate with the glob's protocol and the separator put before it.
WithProtocolOf(g, u) == ProtocolOf(g) \o PROTOCOL_SEPARATOR \o u

C14_VariantsAgree ==
    (Asked /\ Count(ProtocolOf(glob), "*") = 0 /\ ~HasSeparator(url)) =>
        (matched <=> is_match(with_protocol, without_protocol, WithProtocolOf(glob, url)))

====
